---- MODULE Spec2Model ----
(***************************************************************************)
(* Model of the VIT PYQ backend: the auth router (signup, login, OTP,      *)
(* password reset), the papers router (upload with its points award) and   *)
(* the level thresholds, over the Supabase tables of server/db_schema.sql. *)
(* Every handler is cut at its awaits on the store: one action per store   *)
(* call, so that concurrent requests interleave exactly where the code     *)
(* yields.                                                                 *)
(***************************************************************************)
EXTENDS Integers, Sequences, FiniteSets, TLC

\* ------------------------------------------------------------ bounds
MaxInflight == 2        \* request handlers that can be in flight together
MaxOtpRows == 2         \* rows the otp_codes table may hold
MaxUploads == 3         \* blobs the storage bucket may hold
MaxClock == 2           \* last millisecond Date.now() reaches
MaxLedgerPoints == 4200 \* last point total of the sequential ledger runs
OtpWindow == 1          \* validity window of a challenge, in ms, the expiry claim is read with
MaxQueryLen == 2        \* longest search query, in characters
MaxPapers == 2          \* rows the papers table holds when the searches begin
MaxCalls == 4           \* calls of incrementDownloadCount

\* ------------------------------------------------------------ inputs
Slots == 1..MaxInflight
Emails == {"a@x.com", "b@x.com"}
Secrets == {"pw123456", "hunter22"}
OtpCodes == {"100000", "654321"}
NoOtp == "absent"
Exts == {".pdf"}
SeedPoints == {0, 950, 1950, 2950, 3950}
SeedEmail == "a@x.com"
\* texts are sequences of characters
Chars == {"a", "A", "b", "%", "_", ","}
\* the subject, courseCode, examYear, examName and category an upload body carries
Bodies ==
    {[subject |-> <<"A", "b">>, course_code |-> <<"b">>, exam_year |-> "2023",
      exam_name |-> <<"b">>, category |-> "CAT1"],
     [subject |-> <<"b">>, course_code |-> <<"b", "a">>, exam_year |-> "2024",
      exam_name |-> <<"b">>, category |-> "CAT2"],
     [subject |-> <<"b">>, course_code |-> <<"b">>, exam_year |-> "2024",
      exam_name |-> <<"a", "_">>, category |-> "FAT"]}
SeedBody ==
    [subject |-> <<"A", "b">>, course_code |-> <<"b">>, exam_year |-> "2023",
     exam_name |-> <<"b">>, category |-> "CAT1"]
SeedSecret == "pw123456"

VARIABLES
    users,        \* table users: set of rows
    otp_codes,    \* table otp_codes: rows in insertion order
    papers,       \* table papers: rows in insertion order
    blobs,        \* storage bucket 'papers': names of the stored objects
    now,          \* Date.now(), in milliseconds
    req,          \* per slot: the handler running there, its locals, its response
    issued,       \* tokens the server has signed (held by clients)
    cred,         \* history: per email, the secret and id of its signup, until a reset
    seed,         \* history: per user id, the points of the row when the run began
    currentUser,  \* offline client: the currentUser object (empty set: null)
    browser,      \* pyq.js in a browser: api.token, currentUser, localStorage, calls in flight
    site_stats,   \* table site_stats: the row with id 1
    calls         \* downloadCounter.js: per call of incrementDownloadCount, its position and newCount

vars == <<users, otp_codes, papers, blobs, now, req, issued, cred, seed, currentUser, browser, site_stats, calls>>

\* ------------------------------------------------------------ responses
NoResp == [status |-> 0, type |-> "none", msg |-> "", token |-> {}, otp |-> {}, paper |-> {},
           user |-> {}, list |-> {}]

Resp(status, type, msg) == [NoResp EXCEPT !.status = status, !.type = type, !.msg = msg]

\* res.status(s).json({ msg })
JsonMsg(status, msg) == Resp(status, "json", msg)

\* res.status(s).send(text)
SendText(status, text) == Resp(status, "text", text)

\* res.json({ token })
JsonToken(t) == [Resp(200, "json", "") EXCEPT !.token = {t}]

\* res.json({ msg, otp })
JsonOtp(msg, otp) == [Resp(200, "json", msg) EXCEPT !.otp = {otp}]

\* res.json(responsePaper)
JsonPaper(p) == [Resp(200, "json", "") EXCEPT !.paper = {p}]

\* res.json(mapped)
JsonUser(u) == [Resp(200, "json", "") EXCEPT !.user = {u}]

\* res.json(mappedPapers)
JsonList(l) == [Resp(200, "json", "") EXCEPT !.list = {l}]

\* ------------------------------------------------------------ bcrypt, jwt
\* bcrypt.hash(password, salt): a digest, never the plaintext (the salt the
\* digest embeds does not change what bcrypt.compare answers and is left out)
BcryptHash(secret) == [alg |-> "bcrypt", digest |-> secret]

\* bcrypt.compare(password, hash)
BcryptCompareNever(secret, hash) == FALSE

BcryptCompare(secret, hash) == hash.alg = "bcrypt" /\ hash.digest = secret

\* gen_random_uuid(): an id no row has
NewUserId(tbl) == Cardinality(tbl) + 1

\* the id of the first row of the table
SeedId == NewUserId({})

\* expiresIn: '1h', in milliseconds
TokenTtl == 3600000

\* a token of payload { user: { id } } signed with `key` at time `iat`
Token(id, key, iat) == [user |-> [id |-> id], key |-> key, exp |-> iat + TokenTtl]

\* jwt.sign({ user: { id } }, JWT_SECRET, { expiresIn: '1h' })
JwtSign(id) == Token(id, "JWT_SECRET", now)

\* a token signed with another key
Forged(id) == Token(id, "other", 0)

\* a token the server signed an hour or more before the run began
Expired(id) == Token(id, "JWT_SECRET", 0 - TokenTtl)

\* a token the server signed one millisecond less than an hour before the
\* run began
Aging(id) == Token(id, "JWT_SECRET", 1 - TokenTtl)

\* a header value that is no JWT at all
Malformed == [user |-> [id |-> SeedId], key |-> "malformed", exp |-> 0]

\* jwt.verify(token, JWT_SECRET) does not throw: the signature is the
\* server's and the expiry lies ahead
JwtVerifyNoExpiry(t) == t.key = "JWT_SECRET"

JwtVerifyAny(t) == TRUE

JwtVerify(t) == t.key = "JWT_SECRET" /\ now < t.exp

\* ------------------------------------------------------------ store
\* .single(): the row when exactly one row matches, otherwise data is null
Single(rows) == IF Cardinality(rows) = 1 THEN rows ELSE {}

ByEmail(tbl, email) == {u \in tbl : u.email = email}

ById(tbl, id) == {u \in tbl : u.id = id}

\* the firstName, lastName and phone a signup body carries with `email`
FirstNameOf(email) == IF email = "a@x.com" THEN "Asha" ELSE "Bilal"

LastNameOf(email) == IF email = "a@x.com" THEN "Rao" ELSE "Khan"

PhoneOf(email) == IF email = "a@x.com" THEN "9000000001" ELSE "9000000002"

\* insert into users: email is unique; points, level and profile_pic take
\* their defaults
UsersInsert(tbl, email, password) ==
    LET row == [id |-> NewUserId(tbl), first_name |-> FirstNameOf(email),
                last_name |-> LastNameOf(email), email |-> email,
                phone |-> PhoneOf(email), password |-> password,
                points |-> 0, level |-> "Silver", profile_pic |-> ""]
    IN  IF ByEmail(tbl, email) # {}
        THEN [error |-> TRUE, data |-> {}, table |-> tbl]
        ELSE [error |-> FALSE, data |-> {row}, table |-> tbl \cup {row}]

\* update users set password where email = e (no row: no error)
UsersSetPassword(tbl, email, hashed) ==
    {IF u.email = email THEN [u EXCEPT !.password = hashed] ELSE u : u \in tbl}

\* update users set points, level where id = i
UsersSetPoints(tbl, id, points, level) ==
    {IF u.id = id THEN [u EXCEPT !.points = points, !.level = level] ELSE u : u \in tbl}

\* otp_codes rows matching (email, otp), by index
OtpMatchesAnyEmail(tbl, email, otp) == {i \in 1..Len(tbl) : tbl[i].otp = otp}

OtpMatches(tbl, email, otp) ==
    {i \in 1..Len(tbl) : tbl[i].email = email /\ tbl[i].otp = otp}

Max(S) == CHOOSE x \in S : \A y \in S : y <= x

\* .order('created_at', desc).limit(1).single(): the newest matching row, or null
OtpNewest(tbl, email, otp) ==
    LET m == OtpMatches(tbl, email, otp)
    IN  IF m = {} THEN {} ELSE {tbl[Max(m)]}

\* ------------------------------------------------------------ ledger
\* let newPoints = (user.points || 0) + 50
NewPointsNone(points) == points

NewPoints(points) == points + 50

\* the descending threshold checks; below 1000 the level read is kept
NewLevelAscending(newPoints, level) ==
    IF newPoints >= 1000 THEN "Silver"
    ELSE IF newPoints >= 2000 THEN "Gold"
    ELSE IF newPoints >= 3000 THEN "Diamond"
    ELSE IF newPoints >= 4000 THEN "Legendary"
    ELSE level

NewLevelKeep(newPoints, level) == level

NewLevel(newPoints, level) ==
    IF newPoints >= 4000 THEN "Legendary"
    ELSE IF newPoints >= 3000 THEN "Diamond"
    ELSE IF newPoints >= 2000 THEN "Gold"
    ELSE IF newPoints >= 1000 THEN "Silver"
    ELSE level

\* ------------------------------------------------------------ requests
IdleReq == [op |-> "none", pc |-> "idle", email |-> "", secret |-> "", otp |-> "",
            token |-> {}, file |-> {}, body |-> {}, paper |-> {}, rd |-> {},
            query |-> <<>>, at |-> 0, resp |-> NoResp]

Free(r) == req[r].pc \in {"idle", "done"}

\* r is the first free slot (which free slot a request takes is immaterial)
FirstFree(r) == Free(r) /\ \A r2 \in Slots : r2 < r => ~Free(r2)

\* the handler in slot r returns at source line `at` with response `resp`
Finish(q, at, resp) ==
    [q EXCEPT !.pc = "done", !.at = at, !.resp = resp, !.secret = "",
              !.file = {}, !.body = {}, !.paper = {}, !.rd = {}]

\* the level of a row that reached `points` by uploads, one after the other,
\* from the row signup inserts (0, 'Silver')
RECURSIVE LevelAfter(_)
LevelAfter(points) ==
    IF points < 50 THEN "Silver" ELSE NewLevel(points, LevelAfter(points - 50))

\* a user who signed up and uploaded before the run begins
SeedUser(points) ==
    [id |-> SeedId, first_name |-> FirstNameOf(SeedEmail),
     last_name |-> LastNameOf(SeedEmail), email |-> SeedEmail,
     phone |-> PhoneOf(SeedEmail), password |-> BcryptHash(SeedSecret),
     points |-> points, level |-> LevelAfter(points), profile_pic |-> ""]

\* ------------------------------------------------------------ clients
\* the browser with nobody signed in: api.token null, currentUser null, no
\* 'token' and no 'currentUser' entry in localStorage, no fetch under way
SignedOut ==
    [token |-> {}, currentUser |-> {}, storedToken |-> {}, storedUser |-> {}, fetches |-> {}]

\* the calls of incrementDownloadCount
Calls == 1..MaxCalls

IdleCall == [pc |-> "idle", newCount |-> 0]

\* ------------------------------------------------------------ initial states
InitWith(points, client) ==
    /\ users = {SeedUser(points)}
    /\ otp_codes = <<>>
    /\ papers = <<>>
    /\ blobs = {}
    /\ now = 0
    /\ req = [r \in Slots |-> IdleReq]
    /\ issued = {JwtSign(SeedId)}
    /\ cred = [e \in Emails |->
                 IF e = SeedEmail THEN {[secret |-> SeedSecret, id |-> SeedId]} ELSE {}]
    /\ seed = [i \in {SeedId} |-> points]
    /\ currentUser = client
    /\ browser = SignedOut
    /\ site_stats = [download_count |-> 0]
    /\ calls = [c \in Calls |-> IdleCall]

Init == \E p \in SeedPoints : InitWith(p, {})

\* ------------------------------------------------------------ auth router
\* the existence pre-check of POST /signup: select * where email = e, .single()
SignupPrecheckSkipped(tbl, email) == {}

SignupPrecheck(tbl, email) == Single(ByEmail(tbl, email))

\* POST /signup up to the insert: the existence pre-check
SignupCheck(r, email, secret) ==
    /\ Free(r)
    /\ LET q == [IdleReq EXCEPT !.op = "signup", !.email = email, !.secret = secret]
           existingUser == SignupPrecheck(users, email)
       IN  req' = [req EXCEPT ![r] =
                IF existingUser # {}
                THEN Finish(q, 28, JsonMsg(400, "User already exists"))
                ELSE [q EXCEPT !.pc = "insert"]]
    /\ UNCHANGED <<users, otp_codes, papers, blobs, now, issued, cred, seed, currentUser, browser, site_stats, calls>>

\* POST /signup from the hash on: insert, then sign the token
SignupInsert(r) ==
    /\ req[r].op = "signup" /\ req[r].pc = "insert"
    /\ LET q == req[r]
           ins == UsersInsert(users, q.email, BcryptHash(q.secret))
           newUser == CHOOSE u \in ins.data : TRUE
       IN  IF ins.error
           THEN /\ req' = [req EXCEPT ![r] = Finish(q, 60, SendText(500, "Server error"))]
                /\ UNCHANGED <<users, issued, cred>>
           ELSE /\ users' = ins.table
                /\ issued' = issued \cup {JwtSign(newUser.id)}
                /\ cred' = [cred EXCEPT ![q.email] =
                                {[secret |-> q.secret, id |-> newUser.id]}]
                /\ req' = [req EXCEPT ![r] = Finish(q, 55, JsonToken(JwtSign(newUser.id)))]
    /\ UNCHANGED <<otp_codes, papers, blobs, now, seed, currentUser, browser, site_stats, calls>>

\* the two refusals of POST /login
LoginNoUserRespTelling == JsonMsg(404, "User not found")

LoginNoUserResp == JsonMsg(400, "Invalid Credentials")

LoginBadSecretResp == JsonMsg(400, "Invalid Credentials")

\* POST /login
Login(r, email, secret) ==
    /\ Free(r)
    /\ LET q == [IdleReq EXCEPT !.op = "login", !.email = email, !.secret = secret]
           user == Single(ByEmail(users, email))
           u == CHOOSE x \in user : TRUE
       IN  IF user = {}
           THEN /\ req' = [req EXCEPT ![r] = Finish(q, 78, LoginNoUserResp)]
                /\ UNCHANGED issued
           ELSE IF ~BcryptCompare(secret, u.password)
           THEN /\ req' = [req EXCEPT ![r] = Finish(q, 82, LoginBadSecretResp)]
                /\ UNCHANGED issued
           ELSE /\ req' = [req EXCEPT ![r] = Finish(q, 88, JsonToken(JwtSign(u.id)))]
                /\ issued' = issued \cup {JwtSign(u.id)}
    /\ UNCHANGED <<users, otp_codes, papers, blobs, now, cred, seed, currentUser, browser, site_stats, calls>>

\* POST /send-otp
SendOtp(r, email, otp) ==
    /\ Free(r)
    /\ Len(otp_codes) < MaxOtpRows
    /\ otp_codes' = Append(otp_codes, [email |-> email, otp |-> otp, created_at |-> now])
    /\ LET q == [IdleReq EXCEPT !.op = "send-otp", !.email = email]
       IN  req' = [req EXCEPT ![r] = Finish(q, 118, JsonOtp("OTP sent successfully", otp))]
    /\ UNCHANGED <<users, papers, blobs, now, issued, cred, seed, currentUser, browser, site_stats, calls>>

\* POST /verify-otp
VerifyOtp(r, email, otp) ==
    /\ Free(r)
    /\ LET q == [IdleReq EXCEPT !.op = "verify-otp", !.email = email, !.otp = otp]
           data == OtpNewest(otp_codes, email, otp)
       IN  req' = [req EXCEPT ![r] =
                IF data = {}
                THEN Finish(q, 143, JsonMsg(400, "Invalid OTP"))
                ELSE Finish(q, 145, JsonMsg(200, "OTP verified"))]
    /\ UNCHANGED <<users, otp_codes, papers, blobs, now, issued, cred, seed, currentUser, browser, site_stats, calls>>

\* API.verifyOTP: POST /auth/verify-otp with { email, otp, newPassword }; the
\* handler reads email and otp from the body, newPassword is not read
VerifyOtpBody(r, email, otp, newPassword) == VerifyOtp(r, email, otp)

\* POST /reset-password: the body's email and newPassword are read, anything else
\* it carries (an otp) is not
ResetPassword(r, email, newPassword, otp) ==
    /\ Free(r)
    /\ users' = UsersSetPassword(users, email, BcryptHash(newPassword))
    /\ cred' = [cred EXCEPT ![email] = {}]
    /\ LET q == [IdleReq EXCEPT !.op = "reset-password", !.email = email,
                                !.secret = newPassword, !.otp = otp]
       IN  req' = [req EXCEPT ![r] = Finish(q, 173, JsonMsg(200, "Password reset successful"))]
    /\ UNCHANGED <<otp_codes, papers, blobs, now, issued, seed, currentUser, browser, site_stats, calls>>

\* .select('id, first_name, last_name, email, phone, points, level, profile_pic')
ProfileColumns ==
    {"id", "first_name", "last_name", "email", "phone", "points", "level", "profile_pic"}

Select(row, columns) == [c \in columns |-> row[c]]

\* const mapped = { id, firstName, lastName, email, phone, points, level, profilePic }
Mapped(user) ==
    [id |-> user.id, firstName |-> user.first_name, lastName |-> user.last_name,
     email |-> user.email, phone |-> user.phone, points |-> user.points,
     level |-> user.level, profilePic |-> user.profile_pic]

\* what GET /profile answers for a users row: the selected columns, mapped
ProfileViewWholeRow(row) == row

ProfileView(row) == Mapped(Select(row, ProfileColumns))

\* GET /profile
Profile(r, token) ==
    /\ Free(r)
    /\ LET q == [IdleReq EXCEPT !.op = "profile", !.token = token]
           t == CHOOSE x \in token : TRUE
           user == Single(ById(users, t.user.id))
           u == CHOOSE x \in user : TRUE
       IN  req' = [req EXCEPT ![r] =
                IF token = {}
                THEN Finish(q, 188, JsonMsg(401, "No token, authorization denied"))
                ELSE IF ~JwtVerify(t)
                THEN Finish(q, 216, SendText(500, "Server error"))
                ELSE IF user = {}
                THEN Finish(q, 199, JsonMsg(404, "User not found"))
                ELSE Finish(q, 212, JsonUser(ProfileView(u)))]
    /\ UNCHANGED <<users, otp_codes, papers, blobs, now, issued, cred, seed, currentUser, browser, site_stats, calls>>

\* const userResponse = { _id, id, firstName, ... } of the older router
UserResponse(user) ==
    [_id |-> user.id, id |-> user.id, firstName |-> user.first_name,
     lastName |-> user.last_name, email |-> user.email, phone |-> user.phone,
     points |-> user.points, level |-> user.level, profilePic |-> user.profile_pic]

\* GET /profile of the older router: a token that does not verify is caught
\* by the inner try
ProfileOlder(r, token) ==
    /\ Free(r)
    /\ LET q == [IdleReq EXCEPT !.op = "profile", !.token = token]
           t == CHOOSE x \in token : TRUE
           user == Single({Select(u, ProfileColumns) : u \in ById(users, t.user.id)})
           u == CHOOSE x \in user : TRUE
       IN  req' = [req EXCEPT ![r] =
                IF token = {}
                THEN Finish(q, 92, JsonMsg(401, "No token, authorization denied"))
                ELSE IF ~JwtVerify(t)
                THEN Finish(q, 121, JsonMsg(400, "Token is not valid"))
                ELSE IF user = {}
                THEN Finish(q, 104, JsonMsg(404, "User not found"))
                ELSE Finish(q, 119, JsonUser(UserResponse(u)))]
    /\ UNCHANGED <<users, otp_codes, papers, blobs, now, issued, cred, seed, currentUser, browser, site_stats, calls>>

\* the x-auth-token header values a client can send: none, a token the
\* server issued, or one that does not verify
Headers ==
    {{}} \cup {{t} : t \in issued \cup {Forged(SeedId), Expired(SeedId), Malformed}}

NextAuth ==
    \/ \E r \in Slots, e \in Emails, s \in Secrets : SignupCheck(r, e, s)
    \/ \E r \in Slots : SignupInsert(r)
    \/ \E r \in Slots, e \in Emails, s \in Secrets : Login(r, e, s)
    \/ \E r \in Slots, e \in Emails, s \in Secrets : ResetPassword(r, e, s, NoOtp)

NextOtp ==
    \/ \E r \in Slots, e \in Emails, c \in OtpCodes : SendOtp(r, e, c)
    \/ \E r \in Slots, e \in Emails, c \in OtpCodes, s \in Secrets : VerifyOtpBody(r, e, c, s)
    \/ \E r \in Slots, e \in Emails, s \in Secrets, c \in OtpCodes \cup {NoOtp} :
            ResetPassword(r, e, s, c)

\* the auth router alone, on a user table holding one earlier signup
SpecAuth == InitWith(0, {}) /\ [][NextAuth]_vars

\* the password recovery endpoints alone
SpecOtp == InitWith(0, {}) /\ [][NextOtp]_vars

\* POST /login when the select answers with an error: data is null, the
\* error is not read
LoginStoreFails(r, email, secret) ==
    /\ Free(r)
    /\ LET q == [IdleReq EXCEPT !.op = "login", !.email = email, !.secret = secret]
       IN  req' = [req EXCEPT ![r] = Finish(q, 78, LoginNoUserResp)]
    /\ UNCHANGED <<users, otp_codes, papers, blobs, now, issued, cred, seed, currentUser, browser, site_stats, calls>>

\* POST /verify-otp when the select answers with an error: data is null, the
\* error is not read
VerifyOtpStoreFails(r, email, otp) ==
    /\ Free(r)
    /\ LET q == [IdleReq EXCEPT !.op = "verify-otp", !.email = email, !.otp = otp]
       IN  req' = [req EXCEPT ![r] = Finish(q, 143, JsonMsg(400, "Invalid OTP"))]
    /\ UNCHANGED <<users, otp_codes, papers, blobs, now, issued, cred, seed, currentUser, browser, site_stats, calls>>

NextStoreFault ==
    \/ \E r \in Slots, e \in Emails, s \in Secrets : Login(r, e, s)
    \/ \E r \in Slots, e \in Emails, s \in Secrets : LoginStoreFails(r, e, s)
    \/ \E r \in Slots, e \in Emails, c \in OtpCodes : SendOtp(r, e, c)
    \/ \E r \in Slots, e \in Emails, c \in OtpCodes : VerifyOtp(r, e, c)
    \/ \E r \in Slots, e \in Emails, c \in OtpCodes : VerifyOtpStoreFails(r, e, c)

\* login and OTP verification over a store whose reads may fail
SpecStoreFault == InitWith(0, {}) /\ [][NextStoreFault]_vars

NextProfile ==
    \/ \E r \in Slots, e \in Emails, s \in Secrets : SignupCheck(r, e, s)
    \/ \E r \in Slots : SignupInsert(r)
    \/ \E r \in Slots, t \in Headers : Profile(r, t)
    \/ \E r \in Slots, t \in Headers : ProfileOlder(r, t)

\* signing up and reading the profile, with either router
SpecProfile == InitWith(0, {}) /\ [][NextProfile]_vars

NextVerify ==
    \/ \E r \in Slots, e \in Emails, c \in OtpCodes : SendOtp(r, e, c)
    \/ \E r \in Slots, e \in Emails, c \in OtpCodes : VerifyOtp(r, e, c)

\* issuing and verifying codes alone
SpecVerify == InitWith(0, {}) /\ [][NextVerify]_vars

\* ------------------------------------------------------------ papers router
\* insert into papers: uploader_id references users(id)
PapersInsert(tbl, usersTbl, uploader, filePath, body) ==
    LET row == [id |-> Len(tbl) + 1, subject |-> body.subject,
                course_code |-> body.course_code, exam_year |-> body.exam_year,
                exam_name |-> body.exam_name, category |-> body.category,
                file_path |-> filePath, uploader_id |-> uploader]
    IN  IF ById(usersTbl, uploader) = {}
        THEN [error |-> TRUE, data |-> {}, table |-> tbl]
        ELSE [error |-> FALSE, data |-> {row}, table |-> Append(tbl, row)]

\* const fileName = `${Date.now()}${fileExt}`
FileName(ms, ext) == [ms |-> ms, ext |-> ext]

\* POST /upload up to the metadata insert: the auth middleware, the file check
\* and the write to the storage bucket (an existing name is refused)
UploadBlob(r, token, hasFile, ext, body) ==
    /\ FirstFree(r)
    /\ LET q == [IdleReq EXCEPT !.op = "upload", !.token = token, !.body = {body}]
           t == CHOOSE x \in token : TRUE
           filePath == FileName(now, ext)
       IN  IF token = {}
           THEN /\ req' = [req EXCEPT ![r] =
                        Finish(q, 15, JsonMsg(401, "No token, authorization denied"))]
                /\ UNCHANGED blobs
           ELSE IF ~JwtVerify(t)
           THEN /\ req' = [req EXCEPT ![r] = Finish(q, 21, JsonMsg(400, "Token is not valid"))]
                /\ UNCHANGED blobs
           ELSE IF ~hasFile
           THEN /\ req' = [req EXCEPT ![r] = Finish(q, 32, JsonMsg(400, "No file uploaded"))]
                /\ UNCHANGED blobs
           ELSE IF filePath \in blobs
           THEN /\ req' = [req EXCEPT ![r] = Finish(q, 49, SendText(500, "Error uploading file"))]
                /\ UNCHANGED blobs
           ELSE /\ Cardinality(blobs) < MaxUploads
                /\ blobs' = blobs \cup {filePath}
                /\ req' = [req EXCEPT ![r] = [q EXCEPT !.pc = "paper", !.file = {filePath}]]
    /\ UNCHANGED <<users, otp_codes, papers, now, issued, cred, seed, currentUser, browser, site_stats, calls>>

\* if (dbError) { ...; return res.status(500).send('Error saving paper metadata') }
AfterDbErrorAwards(q) ==
    [q EXCEPT !.pc = "read",
              !.paper = {[id |-> 0, subject |-> b.subject, course_code |-> b.course_code,
                          exam_year |-> b.exam_year, exam_name |-> b.exam_name,
                          category |-> b.category, file_path |-> f,
                          uploader_id |-> t.user.id] :
                            f \in q.file, t \in q.token, b \in q.body}]

AfterDbError(q) == Finish(q, 79, SendText(500, "Error saving paper metadata"))

\* POST /upload: the metadata insert
UploadInsertPaper(r) ==
    /\ req[r].op = "upload" /\ req[r].pc = "paper"
    /\ LET q == req[r]
           t == CHOOSE x \in q.token : TRUE
           filePath == CHOOSE x \in q.file : TRUE
           body == CHOOSE x \in q.body : TRUE
           ins == PapersInsert(papers, users, t.user.id, filePath, body)
       IN  IF ins.error
           THEN /\ req' = [req EXCEPT ![r] = AfterDbError(q)]
                /\ UNCHANGED papers
           ELSE /\ papers' = ins.table
                /\ req' = [req EXCEPT ![r] = [q EXCEPT !.pc = "read", !.paper = ins.data]]
    /\ UNCHANGED <<users, otp_codes, blobs, now, issued, cred, seed, currentUser, browser, site_stats, calls>>

\* const responsePaper = { _id, id, subject, courseCode, ..., uploader }
ResponsePaper(newPaper) ==
    [_id |-> newPaper.id, id |-> newPaper.id, subject |-> newPaper.subject,
     courseCode |-> newPaper.course_code, examYear |-> newPaper.exam_year,
     examName |-> newPaper.exam_name, category |-> newPaper.category,
     filePath |-> newPaper.file_path, uploader |-> newPaper.uploader_id]

\* POST /upload: the read of the uploader's points and level
UploadReadPoints(r) ==
    /\ req[r].op = "upload" /\ req[r].pc = "read"
    /\ LET q == req[r]
           t == CHOOSE x \in q.token : TRUE
           user == Single(ById(users, t.user.id))
           u == CHOOSE x \in user : TRUE
           newPaper == CHOOSE x \in q.paper : TRUE
       IN  req' = [req EXCEPT ![r] =
                IF user = {}
                THEN Finish(q, 118, JsonPaper(ResponsePaper(newPaper)))
                ELSE [q EXCEPT !.pc = "write",
                               !.rd = {[points |-> u.points, level |-> u.level]}]]
    /\ UNCHANGED <<users, otp_codes, papers, blobs, now, issued, cred, seed, currentUser, browser, site_stats, calls>>

\* POST /upload: the write of the new points and level, and the response
UploadWritePoints(r) ==
    /\ req[r].op = "upload" /\ req[r].pc = "write"
    /\ LET q == req[r]
           t == CHOOSE x \in q.token : TRUE
           user == CHOOSE x \in q.rd : TRUE
           newPaper == CHOOSE x \in q.paper : TRUE
           newPoints == NewPoints(user.points)
           newLevel == NewLevel(newPoints, user.level)
       IN  /\ users' = UsersSetPoints(users, t.user.id, newPoints, newLevel)
           /\ req' = [req EXCEPT ![r] = Finish(q, 118, JsonPaper(ResponsePaper(newPaper)))]
    /\ UNCHANGED <<otp_codes, papers, blobs, now, issued, cred, seed, currentUser, browser, site_stats, calls>>

\* a millisecond passes
Tick ==
    /\ now < MaxClock
    /\ now' = now + 1
    /\ UNCHANGED <<users, otp_codes, papers, blobs, req, issued, cred, seed, currentUser, browser, site_stats, calls>>

\* POST /upload when the storage bucket answers with an error: nothing is stored
UploadBlobFault(r, token, body) ==
    /\ FirstFree(r)
    /\ token # {} /\ \A t \in token : JwtVerify(t)
    /\ LET q == [IdleReq EXCEPT !.op = "upload", !.token = token, !.body = {body}]
       IN  req' = [req EXCEPT ![r] = Finish(q, 49, SendText(500, "Error uploading file"))]
    /\ UNCHANGED <<users, otp_codes, papers, blobs, now, issued, cred, seed, currentUser, browser, site_stats, calls>>

\* POST /upload when the metadata insert answers with an error: no row is stored
UploadInsertPaperFault(r) ==
    /\ req[r].op = "upload" /\ req[r].pc = "paper"
    /\ req' = [req EXCEPT ![r] = AfterDbError(req[r])]
    /\ UNCHANGED <<users, otp_codes, papers, blobs, now, issued, cred, seed, currentUser, browser, site_stats, calls>>

NextLedger ==
    \/ \E r \in Slots, t \in {{}} \cup {{x} : x \in issued \cup {Forged(SeedId)}},
          f \in BOOLEAN, x \in Exts : UploadBlob(r, t, f, x, SeedBody)
    \/ \E r \in Slots : UploadInsertPaper(r)
    \/ \E r \in Slots : UploadReadPoints(r)
    \/ \E r \in Slots : UploadWritePoints(r)
    \/ Tick

\* the papers router's upload alone, for a user who holds a token
SpecLedger == Init /\ [][NextLedger]_vars

\* POST /upload when the read of the points answers with an error: the
\* points section is skipped (if (!userError && user)) and the paper is answered
UploadReadPointsFault(r) ==
    /\ req[r].op = "upload" /\ req[r].pc = "read"
    /\ LET q == req[r]
           newPaper == CHOOSE x \in q.paper : TRUE
       IN  req' = [req EXCEPT ![r] = Finish(q, 118, JsonPaper(ResponsePaper(newPaper)))]
    /\ UNCHANGED <<users, otp_codes, papers, blobs, now, issued, cred, seed, currentUser, browser, site_stats, calls>>

\* POST /upload when the write of the points answers with an error: the
\* result of the update is not looked at and the paper is answered
UploadWritePointsFault(r) ==
    /\ req[r].op = "upload" /\ req[r].pc = "write"
    /\ LET q == req[r]
           newPaper == CHOOSE x \in q.paper : TRUE
       IN  req' = [req EXCEPT ![r] = Finish(q, 118, JsonPaper(ResponsePaper(newPaper)))]
    /\ UNCHANGED <<users, otp_codes, papers, blobs, now, issued, cred, seed, currentUser, browser, site_stats, calls>>

NextAwardFault ==
    \/ NextLedger
    \/ \E r \in Slots : UploadReadPointsFault(r)
    \/ \E r \in Slots : UploadWritePointsFault(r)

\* uploads of one user with a store that may fail the points read or write
SpecAwardFault == InitWith(950, {}) /\ [][NextAwardFault]_vars

NextUploadFault ==
    \/ NextLedger
    \/ \E r \in Slots, t \in {{x} : x \in issued} : UploadBlobFault(r, t, SeedBody)
    \/ \E r \in Slots : UploadInsertPaperFault(r)

\* uploads of one user with a store that may fail either write
SpecUploadFault == InitWith(950, {}) /\ [][NextUploadFault]_vars

\* ------------------------------------------------------------ search
Lower(c) == IF c = "A" THEN "a" ELSE c

\* text ILIKE pattern: % matches any run of characters, _ any one character,
\* letters match without regard to case
RECURSIVE Like(_, _)
Like(text, pat) ==
    IF pat = <<>> THEN text = <<>>
    ELSE IF Head(pat) = "%"
    THEN Like(text, Tail(pat)) \/ (text # <<>> /\ Like(Tail(text), pat))
    ELSE IF text = <<>> THEN FALSE
    ELSE /\ Head(pat) = "_" \/ Lower(Head(pat)) = Lower(Head(text))
         /\ Like(Tail(text), Tail(pat))

\* `%${query}%`
Pattern(query) == <<"%">> \o query \o <<"%">>

\* the or() filter string is split at its commas into conditions: a comma
\* inside the query leaves pieces that are no column.operator.value
OrParses(query) == \A i \in 1..Len(query) : query[i] # ","

\* the rows the or() of the three ilike conditions keeps
OrIlike(row, query) ==
    \/ Like(row.subject, Pattern(query))
    \/ Like(row.course_code, Pattern(query))
    \/ Like(row.exam_name, Pattern(query))

\* uploader:users(first_name, last_name, profile_pic), the embedded row
UploaderColumns == {"first_name", "last_name", "profile_pic"}

\* uploader: p.uploader ? { firstName, lastName, profilePic } : null
UploaderView(uploader) ==
    {[firstName |-> u.first_name, lastName |-> u.last_name,
      profilePic |-> u.profile_pic] : u \in uploader}

\* one element of mappedPapers
PaperViewSwapped(p) ==
    [_id |-> p.id, id |-> p.id, subject |-> p.subject, courseCode |-> p.course_code,
     examYear |-> p.category, examName |-> p.exam_name, category |-> p.exam_year,
     filePath |-> p.file_path,
     uploader |-> UploaderView({Select(u, UploaderColumns) : u \in ById(users, p.uploader_id)})]

PaperView(p) ==
    [_id |-> p.id, id |-> p.id, subject |-> p.subject, courseCode |-> p.course_code,
     examYear |-> p.exam_year, examName |-> p.exam_name, category |-> p.category,
     filePath |-> p.file_path,
     uploader |-> UploaderView({Select(u, UploaderColumns) : u \in ById(users, p.uploader_id)})]

\* GET /search
Search(r, query) ==
    /\ FirstFree(r)
    /\ LET q == [IdleReq EXCEPT !.op = "search", !.query = query]
           Keep(row) == query = <<>> \/ OrIlike(row, query)
           rows == SelectSeq(papers, Keep)
       IN  req' = [req EXCEPT ![r] =
                IF query # <<>> /\ ~OrParses(query)
                THEN Finish(q, 171, SendText(500, "Server error"))
                ELSE Finish(q, 168, JsonList([i \in 1..Len(rows) |-> PaperView(rows[i])]))]
    /\ UNCHANGED <<users, otp_codes, papers, blobs, now, issued, cred, seed, currentUser, browser, site_stats, calls>>

\* the queries of up to MaxQueryLen characters
Queries == UNION {[1..n -> Chars] : n \in 0..MaxQueryLen}

\* the rows of the papers table after the seed user uploaded `bodies`, one
\* per millisecond
PapersOf(bodies) ==
    [i \in 1..Len(bodies) |->
        [id |-> i, subject |-> bodies[i].subject, course_code |-> bodies[i].course_code,
         exam_year |-> bodies[i].exam_year, exam_name |-> bodies[i].exam_name,
         category |-> bodies[i].category, file_path |-> FileName(i, ".pdf"),
         uploader_id |-> SeedId]]

InitSearch ==
    /\ users = {SeedUser(0)}
    /\ otp_codes = <<>>
    /\ \E n \in 0..MaxPapers : \E bodies \in [1..n -> Bodies] :
          /\ papers = PapersOf(bodies)
          /\ blobs = {FileName(i, ".pdf") : i \in 1..n}
    /\ now = 0
    /\ req = [r \in Slots |-> IdleReq]
    /\ issued = {JwtSign(SeedId)}
    /\ cred = [e \in Emails |->
                 IF e = SeedEmail THEN {[secret |-> SeedSecret, id |-> SeedId]} ELSE {}]
    /\ seed = [i \in {SeedId} |-> 0]
    /\ currentUser = {}
    /\ browser = SignedOut
    /\ site_stats = [download_count |-> 0]
    /\ calls = [c \in Calls |-> IdleCall]

NextSearch == \E r \in Slots, query \in Queries : Search(r, query)

\* searches over a papers table of earlier uploads
SpecSearch == InitSearch /\ [][NextSearch]_vars

NextRoundTrip ==
    \/ \E r \in Slots, t \in {{x} : x \in issued}, x \in Exts, b \in Bodies :
            UploadBlob(r, t, TRUE, x, b)
    \/ \E r \in Slots : UploadInsertPaper(r)
    \/ \E r \in Slots : UploadReadPoints(r)
    \/ \E r \in Slots : UploadWritePoints(r)
    \/ \E r \in Slots : Search(r, <<>>)

\* an upload of the seed user on top of earlier ones, and searches for every paper
SpecRoundTrip == InitSearch /\ [][NextRoundTrip]_vars

NextEndToEnd ==
    \/ \E r \in Slots, e \in Emails, s \in Secrets : FirstFree(r) /\ SignupCheck(r, e, s)
    \/ \E r \in Slots : SignupInsert(r)
    \/ \E r \in Slots, t \in {{x} : x \in issued}, x \in Exts :
            UploadBlob(r, t, TRUE, x, SeedBody)
    \/ \E r \in Slots : UploadInsertPaper(r)
    \/ \E r \in Slots : UploadReadPoints(r)
    \/ \E r \in Slots : UploadWritePoints(r)
    \/ \E r \in Slots, t \in {{x} : x \in issued} : FirstFree(r) /\ Profile(r, t)

\* sign up, upload, read the profile
SpecEndToEnd == InitWith(0, {}) /\ [][NextEndToEnd]_vars

\* the tokens clients hold: those issued in the run and one about to expire
Sessions == {{t} : t \in issued \cup {Aging(SeedId)}}

NextSession ==
    \/ \E r \in Slots, s \in Secrets : Login(r, SeedEmail, s)
    \/ \E r \in Slots, s \in Secrets : ResetPassword(r, SeedEmail, s, NoOtp)
    \/ \E r \in Slots, t \in Sessions : Profile(r, t)
    \/ \E r \in Slots, t \in Sessions, x \in Exts : UploadBlob(r, t, FALSE, x, SeedBody)
    \/ Tick

\* sessions of the seed user while time passes and the password is reset; the
\* upload requests carry no file, so that each ends right behind the auth
\* middleware
SpecSession == InitWith(0, {}) /\ [][NextSession]_vars

\* the queries of the run over the answering endpoints: none, a letter, a comma
ViewQueries == {<<>>, <<"a">>, <<",">>}

\* the endpoints that answer with tokens, user rows or paper rows, and their
\* refusals; each request takes the first free slot
NextViews ==
    \/ \E r \in Slots, e \in Emails, s \in Secrets : FirstFree(r) /\ Login(r, e, s)
    \/ \E r \in Slots, t \in Headers : FirstFree(r) /\ Profile(r, t)
    \/ \E r \in Slots, t \in Headers : FirstFree(r) /\ ProfileOlder(r, t)
    \/ \E r \in Slots, t \in Headers, f \in BOOLEAN, x \in Exts :
            UploadBlob(r, t, f, x, SeedBody)
    \/ \E r \in Slots, t \in {{x} : x \in issued} : UploadBlobFault(r, t, SeedBody)
    \/ \E r \in Slots : UploadInsertPaper(r)
    \/ \E r \in Slots : UploadInsertPaperFault(r)
    \/ \E r \in Slots : UploadReadPoints(r)
    \/ \E r \in Slots : UploadWritePoints(r)
    \/ \E r \in Slots, query \in ViewQueries : Search(r, query)

\* login, profile, upload and search over a papers table of earlier uploads
SpecViews == InitSearch /\ [][NextViews]_vars

NextOtpTime ==
    \/ \E r \in Slots, e \in Emails, c \in OtpCodes : SendOtp(r, e, c)
    \/ \E r \in Slots, e \in Emails, c \in OtpCodes : VerifyOtp(r, e, c)
    \/ Tick

\* issuing and verifying codes while time passes
SpecOtpTime == InitWith(0, {}) /\ [][NextOtpTime]_vars

\* ------------------------------------------------------------ levels, alone
\* the points section of POST /upload with no other request in between:
\* the read, the thresholds and the write
UploadAwardAlone(id) ==
    /\ \A r \in Slots : Free(r)
    /\ \E u \in Single(ById(users, id)) :
          LET newPoints == NewPoints(u.points)
              newLevel == NewLevel(newPoints, u.level)
          IN  /\ newPoints <= MaxLedgerPoints
              /\ users' = UsersSetPoints(users, id, newPoints, newLevel)
    /\ UNCHANGED <<otp_codes, papers, blobs, now, req, issued, cred, seed, currentUser, browser, site_stats, calls>>

\* offline client, updateLevel()
UpdateLevel(user) ==
    IF user.points >= 4000 THEN [user EXCEPT !.level = "Legendary"]
    ELSE IF user.points >= 3000 THEN [user EXCEPT !.level = "Diamond"]
    ELSE IF user.points >= 2000 THEN [user EXCEPT !.level = "Gold"]
    ELSE IF user.points >= 1000 THEN [user EXCEPT !.level = "Silver"]
    ELSE user

\* offline client, the upload form: currentUser.points += 50; updateLevel()
ClientAward ==
    /\ \E c \in currentUser :
          /\ c.points + 50 <= MaxLedgerPoints
          /\ currentUser' = {UpdateLevel([c EXCEPT !.points = c.points + 50])}
    /\ UNCHANGED <<users, otp_codes, papers, blobs, now, req, issued, cred, seed,
                   browser, site_stats, calls>>

\* offline client, the signup form: newUser = { points: 0, level: 'Silver' }
ClientNewUser == [points |-> 0, level |-> "Silver"]

NextLevel ==
    \/ UploadAwardAlone(SeedId)
    \/ ClientAward

\* one server row and one offline client, each awarded upload after upload
SpecLevel == InitWith(0, {ClientNewUser}) /\ [][NextLevel]_vars

\* ------------------------------------------------------------ pyq.js in a browser
\* the other variables of a browser step
ServerUnchanged ==
    UNCHANGED <<users, otp_codes, papers, blobs, now, req, issued, cred, seed, currentUser,
                site_stats, calls>>

\* a fetch of GET /auth/profile under way, started by `of` with the token it sent
GetUserFetch(of, token) == [of |-> of, pc |-> "profile", token |-> token]

\* page load: the API constructor reads the stored token, DOMContentLoaded
\* restores the cached user and, with a token, starts the session refresh;
\* the fetches of the page before are gone
PageLoad ==
    /\ browser' = [browser EXCEPT
            !.token = browser.storedToken,
            !.currentUser = browser.storedUser,
            !.fetches = IF browser.storedToken # {}
                        THEN {GetUserFetch("refresh", browser.storedToken)} ELSE {}]
    /\ ServerUnchanged

\* handleAuth in login mode with credentials the server accepts: api.login
\* stores the token and starts getUser
BrowserLogin(email, secret) ==
    /\ \E u \in Single(ByEmail(users, email)) :
          /\ BcryptCompare(secret, u.password)
          /\ browser' = [browser EXCEPT
                  !.token = {JwtSign(u.id)},
                  !.storedToken = {JwtSign(u.id)},
                  !.fetches = @ \cup {GetUserFetch("login", {JwtSign(u.id)})}]
    /\ ServerUnchanged

\* logout(), which the page offers while currentUser is set: api.logout() and
\* currentUser = null
Logout ==
    /\ browser.currentUser # {}
    /\ browser' = [browser EXCEPT !.token = {}, !.storedToken = {}, !.storedUser = {},
                                  !.currentUser = {}]
    /\ ServerUnchanged

\* downloadPaper with a user signed in: the cached user is written and
\* api.registerDownload is started
DownloadPaper ==
    /\ browser.currentUser # {}
    /\ browser' = [browser EXCEPT
            !.storedUser = browser.currentUser,
            !.fetches = @ \cup {[of |-> "download", pc |-> "register", token |-> browser.token]}]
    /\ ServerUnchanged

\* api.registerDownload settles: on success the then-callback calls
\* api.getUser(), which returns null without a token and fetches otherwise
RegisterDownloadSettles(f, ok) ==
    /\ f \in browser.fetches /\ f.pc = "register"
    /\ browser' = [browser EXCEPT
            !.fetches = (@ \ {f}) \cup
                        (IF ok /\ browser.token # {}
                         THEN {GetUserFetch("download", browser.token)} ELSE {})]
    /\ ServerUnchanged

\* the fetch of api.getUser settles: not ok, api.logout() and null; ok, the
\* user, which the caller assigns to currentUser and writes to localStorage
GetUserSettles(f) ==
    /\ f \in browser.fetches /\ f.pc = "profile"
    /\ LET user == UNION {{ProfileView(u) : u \in ById(users, t.user.id)} :
                              t \in {x \in f.token : JwtVerify(x)}}
           rest == browser.fetches \ {f}
       IN  browser' =
             IF user = {}
             THEN [browser EXCEPT !.token = {}, !.storedToken = {}, !.storedUser = {},
                                  !.currentUser = IF f.of = "login" THEN {} ELSE @,
                                  !.fetches = rest]
             ELSE [browser EXCEPT !.currentUser = user, !.storedUser = user,
                                  !.fetches = rest]
    /\ ServerUnchanged

\* a browser that holds nothing, or the entries of a session whose token has
\* expired since
InitBrowser ==
    /\ users = {SeedUser(0)}
    /\ otp_codes = <<>>
    /\ papers = <<>>
    /\ blobs = {}
    /\ now = 0
    /\ req = [r \in Slots |-> IdleReq]
    /\ issued = {JwtSign(SeedId)}
    /\ cred = [e \in Emails |->
                 IF e = SeedEmail THEN {[secret |-> SeedSecret, id |-> SeedId]} ELSE {}]
    /\ seed = [i \in {SeedId} |-> 0]
    /\ currentUser = {}
    /\ browser \in {SignedOut,
                     [SignedOut EXCEPT !.storedToken = {Expired(SeedId)},
                                       !.storedUser = {ProfileView(SeedUser(0))}]}
    /\ site_stats = [download_count |-> 0]
    /\ calls = [c \in Calls |-> IdleCall]

NextBrowser ==
    \/ PageLoad
    \/ \E e \in Emails, s \in Secrets : BrowserLogin(e, s)
    \/ Logout
    \/ DownloadPaper
    \/ \E f \in browser.fetches, ok \in BOOLEAN : RegisterDownloadSettles(f, ok)
    \/ \E f \in browser.fetches : GetUserSettles(f)

\* one browser tab against the server's users table
SpecBrowser == InitBrowser /\ [][NextBrowser]_vars

\* ------------------------------------------------------------ downloadCounter.js
\* the other variables of a step of incrementDownloadCount
SiteUnchanged ==
    UNCHANGED <<users, otp_codes, papers, blobs, now, req, issued, cred, seed, currentUser,
                browser>>

\* let newCount = data.download_count + 1
NewCount(count) == count + 1

\* incrementDownloadCount, step 1: fetch the current count
FetchCount(c) ==
    /\ calls[c].pc = "idle"
    /\ calls' = [calls EXCEPT ![c] = [pc |-> "update",
                                      newCount |-> NewCount(site_stats.download_count)]]
    /\ UNCHANGED site_stats
    /\ SiteUnchanged

\* incrementDownloadCount, step 2: update the count, then the page
UpdateCount(c) ==
    /\ calls[c].pc = "update"
    /\ site_stats' = [site_stats EXCEPT !.download_count = calls[c].newCount]
    /\ calls' = [calls EXCEPT ![c].pc = "done"]
    /\ SiteUnchanged

NextCounter ==
    \/ \E c \in Calls : FetchCount(c)
    \/ \E c \in Calls : UpdateCount(c)

\* calls of incrementDownloadCount from several pages
SpecCounter == InitWith(0, {}) /\ [][NextCounter]_vars

Next == NextAuth \/ NextOtp \/ NextLedger

Spec == Init /\ [][Next]_vars

\* ============================================================ claims
Levels == {"Silver", "Gold", "Diamond", "Legendary"}

\* the level table of the ledger: points -> level
Tier(points) ==
    IF points >= 4000 THEN "Legendary"
    ELSE IF points >= 3000 THEN "Diamond"
    ELSE IF points >= 2000 THEN "Gold"
    ELSE "Silver"

Rank(level) ==
    CASE level = "Silver" -> 1 [] level = "Gold" -> 2
      [] level = "Diamond" -> 3 [] level = "Legendary" -> 4

IsDone(r, op) == req[r].op = op /\ req[r].pc = "done"

\* paper rows of uploader id: the uploads of that user that were accepted
AcceptedUploads(id) == Cardinality({i \in 1..Len(papers) : papers[i].uploader_id = id})

\* C1: once no upload is in flight, every user's points are the points the
\* row started with plus 50 for each accepted upload of that user (SpecLedger).
C1_NoLostAward ==
    (\A r \in Slots : Free(r)) =>
        \A u \in users : u.points = seed[u.id] + 50 * AcceptedUploads(u.id)

\* C2: a step that changes a user's stored password is a request that carried
\* an otp matching an otp_codes row of that user's email (SpecOtp).
C2_ResetOnlyWithOtp ==
    [][\A u \in users : \A v \in users' :
          (v.id = u.id /\ v.password # u.password) =>
              \E r \in Slots : /\ req'[r] # req[r]
                               /\ OtpMatches(otp_codes, u.email, req'[r].otp) # {}]_vars

\* C3: no two verifications with the same (email, code) both succeed (SpecOtp).
C3_OtpSingleUse ==
    \A r1, r2 \in Slots :
        (/\ r1 # r2
         /\ IsDone(r1, "verify-otp") /\ IsDone(r2, "verify-otp")
         /\ req[r1].email = req[r2].email /\ req[r1].otp = req[r2].otp
         /\ req[r1].resp.status = 200)
        => req[r2].resp = JsonMsg(400, "Invalid OTP")

\* C4: a signup request for an email that has a users row ends at once with
\* 400 'User already exists' and the users table is as it was (SpecAuth).
C4_SignupConflict ==
    [][\A r \in Slots, e \in Emails, s \in Secrets :
          (SignupCheck(r, e, s) /\ ByEmail(users, e) # {}) =>
              /\ req'[r].pc = "done"
              /\ req'[r].resp = JsonMsg(400, "User already exists")
              /\ users' = users]_vars

C4_Witness ==
    \E r \in Slots : IsDone(r, "signup") /\ req[r].at = 28 /\ req[r].email = "b@x.com"
                      /\ Cardinality(users) = 2

UniqueEmail == \A u, v \in users : u.email = v.email => u = v

\* C5: at most one users row per email, and of two signups for one email that
\* both passed the pre-check at most one gets a token and the other one is
\* answered 400 'User already exists' (SpecAuth).
C5_ConcurrentSignup ==
    /\ UniqueEmail
    /\ \A r1, r2 \in Slots :
        (/\ r1 # r2
         /\ IsDone(r1, "signup") /\ IsDone(r2, "signup")
         /\ req[r1].email = req[r2].email
         /\ req[r1].at # 28 /\ req[r2].at # 28)
        => /\ req[r1].resp.token = {} \/ req[r2].resp.token = {}
           /\ req[r1].resp.token = {} => req[r1].resp = JsonMsg(400, "User already exists")

\* C6: a login with the email and the secret of a signup that no reset
\* followed answers 200 with a token that verifies and whose subject is the id
\* of the row the signup created (SpecAuth).
C6_LoginAfterSignup ==
    [][\A r \in Slots, e \in Emails, s \in Secrets :
          (Login(r, e, s) /\ \E c \in cred[e] : c.secret = s) =>
              /\ req'[r].resp.status = 200
              /\ req'[r].resp.token # {}
              /\ \A t \in req'[r].resp.token, c \in cred[e] :
                    JwtVerify(t) /\ t.user.id = c.id]_vars

C6_Witness ==
    \E r \in Slots : /\ IsDone(r, "login") /\ req[r].email = "b@x.com"
                      /\ req[r].resp.token = {JwtSign(2)}
                      /\ cred["b@x.com"] # {}

\* C7: a login refused for an unknown email and a login refused for a wrong
\* secret carry the same response, 400 with msg 'Invalid Credentials' (SpecAuth).
C7_LoginRefusalsAlike ==
    \A r1, r2 \in Slots :
        (/\ IsDone(r1, "login") /\ req[r1].at = 78
         /\ IsDone(r2, "login") /\ req[r2].at = 82)
        => /\ req[r1].resp = req[r2].resp
           /\ req[r1].resp.status = 400
           /\ req[r1].resp.msg = "Invalid Credentials"

C7_Witness ==
    \E r1, r2 \in Slots :
        /\ IsDone(r1, "login") /\ req[r1].at = 78 /\ req[r1].email = "b@x.com"
        /\ IsDone(r2, "login") /\ req[r2].at = 82 /\ req[r2].email = "a@x.com"

\* C8: in every state each users row's level is the level of the table for
\* the row's points (SpecLedger).
C8_LevelOfPoints == \A u \in users : u.level = Tier(u.points)

C8_Witness ==
    \E r \in Slots, u \in users :
        /\ IsDone(r, "upload") /\ req[r].at = 118
        /\ seed[u.id] = 1950 /\ u.points >= 2000 /\ u.level = "Gold"

\* C9: every point total a row or the offline client reaches has one of the
\* four levels, the highest its points qualify for, and of two point totals
\* the smaller never has the higher level (SpecLevel).
C9_LevelTotalMonotonic ==
    LET held == users \cup currentUser
        pl == {<<h.points, h.level>> : h \in held}
    IN  /\ \A x \in pl : x[1] >= 0 /\ x[2] \in Levels /\ x[2] = Tier(x[1])
        /\ \A x, y \in pl : x[1] <= y[1] => Rank(x[2]) <= Rank(y[2])

C9_Witness ==
    \E u \in users, c \in currentUser :
        /\ u.points = 4000 /\ u.level = "Legendary"
        /\ c.points = 2950 /\ c.level = "Gold"

\* C10: no users row has negative points, and no step lowers the points of a
\* users row (SpecLedger).
C10_PointsNeverDecrease ==
    [][/\ \A u \in users : u.points >= 0
       /\ \A u \in users : \A v \in users' : v.id = u.id => v.points >= u.points]_vars

\* this step is the handler of `op` in slot r, arriving and answering
Answers(r, op) == req'[r] # req[r] /\ req'[r].op = op /\ req'[r].pc = "done"

\* no otp_codes row was ever inserted for (email, otp): rows are never deleted
NeverIssued(email, otp) ==
    \A i \in 1..Len(otp_codes) : otp_codes[i].email # email \/ otp_codes[i].otp # otp

\* the code of the challenge issued last for email (none: the empty set)
LatestCode(email) ==
    LET idx == {i \in 1..Len(otp_codes) : otp_codes[i].email = email}
    IN  IF idx = {} THEN {} ELSE {otp_codes[Max(idx)].otp}

\* C11: a verification with a code never issued for the email answers
\* 400 'Invalid OTP', and one with the code of the email's latest challenge
\* answers 200 (SpecVerify).
C11_VerifyIssuedCode ==
    [][\A r \in Slots :
          Answers(r, "verify-otp") =>
              LET e == req'[r].email
                  c == req'[r].otp
              IN  /\ NeverIssued(e, c) => req'[r].resp = JsonMsg(400, "Invalid OTP")
                  /\ LatestCode(e) = {c} => req'[r].resp = JsonMsg(200, "OTP verified")]_vars

C11_Witness ==
    \E r1, r2 \in Slots :
        /\ IsDone(r1, "verify-otp") /\ req[r1].at = 145
        /\ LatestCode(req[r1].email) = {req[r1].otp}
        /\ IsDone(r2, "verify-otp") /\ req[r2].at = 143
        /\ NeverIssued(req[r2].email, req[r2].otp)
        /\ \E i \in 1..Len(otp_codes) : otp_codes[i].otp = req[r2].otp

\* C12: a verification whose matching challenges were all created longer ago
\* than the validity window answers 400 'Invalid OTP' (SpecOtpTime).
C12_OtpExpires ==
    [][\A r \in Slots :
          Answers(r, "verify-otp") =>
              LET rows == {i \in 1..Len(otp_codes) :
                              /\ otp_codes[i].email = req'[r].email
                              /\ otp_codes[i].otp = req'[r].otp}
              IN  (rows # {} /\ \A i \in rows : now - otp_codes[i].created_at > OtpWindow)
                      => req'[r].resp = JsonMsg(400, "Invalid OTP")]_vars

\* C13: after a verify-otp request with (email, code, newSecret) is answered
\* 200 for an email that has a users row, the row's password is the hash of
\* newSecret (SpecOtp).
C13_VerifyStoresNewSecret ==
    [][\A r \in Slots, e \in Emails, c \in OtpCodes, s \in Secrets :
          (/\ VerifyOtpBody(r, e, c, s)
           /\ req'[r].resp.status = 200
           /\ ByEmail(users, e) # {})
          => \A u \in ByEmail(users', e) : BcryptCompare(s, u.password)]_vars

\* C14: a reset-password request for an email without a users row is answered
\* 404 and leaves the users table as it was (SpecAuth).
C14_ResetUnknownEmail ==
    [][\A r \in Slots :
          (Answers(r, "reset-password") /\ ByEmail(users, req'[r].email) = {})
          => req'[r].resp.status = 404 /\ users' = users]_vars

\* C15: no answer to a send-otp request carries the code that was stored
\* (SpecOtp).
C15_OtpNotInResponse ==
    \A r \in Slots : IsDone(r, "send-otp") => req[r].resp.otp = {}

\* C16: a profile request whose token is missing, does not verify (bad
\* signature, malformed) or has expired is answered 401 without user data
\* (SpecProfile).
C16_ProfileUnauthorized ==
    [][\A r \in Slots :
          (/\ Answers(r, "profile")
           /\ \/ req'[r].token = {}
              \/ \E t \in req'[r].token : ~JwtVerify(t))
          => req'[r].resp.status = 401 /\ req'[r].resp.user = {}]_vars

\* C18: an upload that ends on the failed blob write or on the failed metadata
\* write leaves users, papers and the bucket as they were in that step and has
\* inserted no paper; and every change of a points total is the last step of
\* an upload whose paper row is stored and whose blob is in the bucket
\* (SpecUploadFault).
C18_AwardAfterBothWrites ==
    [][/\ \A r \in Slots :
             (Answers(r, "upload") /\ req'[r].at \in {49, 79})
             => (/\ users' = users /\ papers' = papers /\ blobs' = blobs
                 /\ req[r].pc \in {"idle", "done", "paper"})
       /\ (users' # users)
             => (\E r \in Slots :
                   /\ req[r].op = "upload" /\ req[r].pc = "write" /\ req'[r].pc = "done"
                   /\ req[r].paper # {}
                   /\ \A p \in req[r].paper :
                         /\ \E i \in 1..Len(papers) : papers[i] = p
                         /\ p.file_path \in blobs)]_vars

C18_Witness ==
    \E r1, r2 \in Slots :
        /\ IsDone(r1, "upload") /\ req[r1].at = 49
        /\ IsDone(r2, "upload") /\ req[r2].at = 79
        /\ blobs # {} /\ papers = <<>>
        /\ users = {SeedUser(950)}

\* the keys of the answers that hold user or paper data
UserKeys ==
    {"_id", "id", "firstName", "lastName", "email", "phone", "points", "level", "profilePic"}

PaperKeys ==
    {"_id", "id", "subject", "courseCode", "examYear", "examName", "category",
     "filePath", "uploader"}

\* a stored hash or a plaintext secret, wherever a response could hold one
SecretTexts == Secrets \cup {u.password.digest : u \in users}

NoSecretIn(resp) ==
    /\ resp.msg \notin SecretTexts
    /\ \A o \in resp.otp : o \notin SecretTexts
    /\ \A t \in resp.token : DOMAIN t = {"user", "key", "exp"} /\ DOMAIN t.user = {"id"}
    /\ \A u \in resp.user :
          /\ DOMAIN u \subseteq UserKeys
          /\ {u.firstName, u.lastName, u.email, u.phone, u.level, u.profilePic}
                \cap SecretTexts = {}
    /\ \A p \in resp.paper : DOMAIN p \subseteq PaperKeys
    /\ \A l \in resp.list : \A i \in 1..Len(l) :
          /\ DOMAIN l[i] \subseteq PaperKeys
          /\ \A v \in l[i].uploader :
                /\ DOMAIN v \subseteq {"firstName", "lastName", "profilePic"}
                /\ {v.firstName, v.lastName, v.profilePic} \cap SecretTexts = {}

C21_UploadSearchRoundTrip ==
    [][/\ \A r \in Slots :
             (Answers(r, "upload") /\ req'[r].resp.paper # {})
             => \E i \in 1..Len(papers') : \A v \in req'[r].resp.paper :
                   \A b \in req[r].body : \A t \in req[r].token :
                       /\ v.id = papers'[i].id
                       /\ papers'[i].subject = b.subject
                       /\ papers'[i].course_code = b.course_code
                       /\ papers'[i].exam_year = b.exam_year
                       /\ papers'[i].category = b.category
                       /\ papers'[i].uploader_id = t.user.id
                       /\ req[r].body # {}
       /\ Len(papers') >= Len(papers)
       /\ \A i \in 1..Len(papers) : papers'[i] = papers[i]
       /\ \A r \in Slots :
             (Answers(r, "search") /\ req'[r].query = <<>>)
             => /\ req'[r].resp.list # {}
                /\ \A l \in req'[r].resp.list : \A i \in 1..Len(papers) :
                      \E j \in 1..Len(l) :
                         /\ l[j].id = papers[i].id
                         /\ l[j].subject = papers[i].subject
                         /\ l[j].courseCode = papers[i].course_code
                         /\ l[j].examYear = papers[i].exam_year
                         /\ l[j].category = papers[i].category
                         /\ l[j].uploader # {}
                         /\ l[j].uploader =
                               UploaderView(ById(users, papers[i].uploader_id))]_vars

\* a search answered in the slot the finished upload had held
C21_Witness ==
    \E r \in Slots :
        /\ \A r2 \in Slots : Free(r2) /\ r <= r2
        /\ IsDone(r, "search") /\ req[r].query = <<>>
        /\ \E u \in users : u.points = NewPoints(0)
        /\ \E l \in req[r].resp.list : \E j \in 1..Len(l) :
              /\ l[j].filePath = FileName(0, ".pdf")
              /\ l[j].category = "FAT"
              /\ l[j].uploader # {}

\* the papers rows of uploader `id`
PapersBy(id) == {i \in 1..Len(papers) : papers[i].uploader_id = id}

\* an upload with the token of user `id` is under way
Uploading(id) ==
    \E r \in Slots :
        req[r].op = "upload" /\ req[r].pc # "done" /\ \E t \in req[r].token : t.user.id = id

\* C22: the profile of a user who signed up with the defaults and has
\* completed exactly one upload shows 50 points and level Silver
\* (SpecEndToEnd).
C22_SignupUploadProfile ==
    [][\A r \in Slots :
          Answers(r, "profile") =>
              \A v \in req'[r].resp.user :
                  (Cardinality(PapersBy(v.id)) = 1 /\ ~Uploading(v.id))
                  => v.points = 50 /\ v.level = "Silver"]_vars

C22_Witness ==
    \E r \in Slots :
        /\ IsDone(r, "profile")
        /\ \E v \in req[r].resp.user :
              /\ v.id # SeedId
              /\ Cardinality(PapersBy(v.id)) = 1 /\ ~Uploading(v.id)
              /\ v.points = 50

\* this step is the arrival of an upload request in slot r
Arrives(r, op) == req'[r] # req[r] /\ req'[r].op = op /\ Free(r)

\* C23: a profile read or an upload with a token the server signed is let
\* through while the token's expiry lies ahead, whatever has happened to the
\* account, and refused from the expiry on (SpecSession).
C23_TokenValidUntilExpiry ==
    [][\A r \in Slots :
          /\ Answers(r, "profile")
                => \A t \in req'[r].token :
                      t.key = "JWT_SECRET" =>
                          IF now < t.exp
                          THEN req'[r].resp.status = 200 /\ req'[r].resp.user # {}
                          ELSE req'[r].resp.status # 200 /\ req'[r].resp.user = {}
          /\ Arrives(r, "upload")
                => \A t \in req'[r].token :
                      t.key = "JWT_SECRET" =>
                          IF now < t.exp
                          THEN req'[r].at = 32
                          ELSE req'[r].pc = "done" /\ req'[r].at = 21 /\ blobs' = blobs]_vars

C23_Witness ==
    \E r1, r2 \in Slots :
        /\ IsDone(r1, "profile") /\ req[r1].resp.status = 200
        /\ IsDone(r2, "profile") /\ req[r2].resp.status # 200
        /\ req[r1].token = req[r2].token
        /\ \E u \in users : u.email = SeedEmail /\ ~BcryptCompare(SeedSecret, u.password)

\* C24: every papers row refers to a users row; an upload request whose token
\* is missing or does not verify ends at once with a refusal and changes
\* nothing; and papers and users change only in steps of uploads that came
\* with a server-signed token (SpecLedger).
C24_PapersHaveUploader ==
    [][/\ \A i \in 1..Len(papers') : ById(users', papers'[i].uploader_id) # {}
       /\ \A r \in Slots :
             (/\ Arrives(r, "upload")
              /\ \/ req'[r].token = {}
                 \/ \E t \in req'[r].token : t.key # "JWT_SECRET" \/ now >= t.exp)
             => /\ req'[r].pc = "done" /\ req'[r].resp.status \in {400, 401}
                /\ req'[r].resp.paper = {}
                /\ papers' = papers /\ users' = users /\ blobs' = blobs
       /\ (papers' # papers \/ users' # users)
             => (\E r \in Slots :
                   /\ req[r].op = "upload" /\ req[r].pc \in {"paper", "write"}
                   /\ req'[r] # req[r]
                   /\ req[r].token # {}
                   /\ \A t \in req[r].token : t.key = "JWT_SECRET")]_vars

C24_Witness ==
    \E r1, r2 \in Slots :
        /\ IsDone(r1, "upload") /\ req[r1].at = 21
        /\ IsDone(r2, "upload") /\ req[r2].at = 15
        /\ Len(papers) >= 1
        /\ \A i \in 1..Len(papers) : papers[i].uploader_id = SeedId

\* C25: the step in which an upload answers with its paper raises the
\* uploader's stored points by 50, also when the points read or the points
\* write reported an error (SpecAwardFault).
C25_AcceptedUploadAwards ==
    [][\A r \in Slots :
          (Answers(r, "upload") /\ req'[r].resp.paper # {})
          => \A t \in req[r].token :
                \A u \in ById(users, t.user.id) : \A u2 \in ById(users', t.user.id) :
                    u2.points = u.points + 50]_vars

\* C26: an upload that comes with a verifying token and a file writes its blob
\* under a name no blob has yet, and so does not end on the blob write
\* (SpecLedger, whose bucket refuses nothing but a name that exists).
C26_BlobNamesDistinct ==
    [][\A r \in Slots :
          (Arrives(r, "upload") /\ req'[r].at \notin {15, 21, 32})
          => /\ req'[r].pc = "paper"
             /\ req'[r].file \cap blobs = {}]_vars

\* C27: a login or an OTP verification whose store read failed is answered
\* with a 5xx status (SpecStoreFault).
C27_StoreFailureIs5xx ==
    [][\A r \in Slots :
          /\ \A e \in Emails, s \in Secrets :
                LoginStoreFails(r, e, s) => req'[r].resp.status >= 500
          /\ \A e \in Emails, c \in OtpCodes :
                VerifyOtpStoreFails(r, e, c) => req'[r].resp.status >= 500]_vars

\* C28: a verification with a code that was issued for the email, after a
\* later challenge for that email issued a different code, is answered 400
\* "Invalid OTP" (SpecVerify).
C28_NewerOtpSupersedes ==
    [][\A r \in Slots :
          Answers(r, "verify-otp") =>
              LET e == req'[r].email
                  c == req'[r].otp
              IN  (~NeverIssued(e, c) /\ LatestCode(e) # {c})
                      => req'[r].resp = JsonMsg(400, "Invalid OTP")]_vars

\* C29: from the state logout() leaves (api.token null, currentUser null, no
\* 'currentUser' entry in localStorage), as long as no login sets the token,
\* currentUser stays null and no entry is written (SpecBrowser).
C29_SignedOutStaysSignedOut ==
    [][(/\ browser.token = {} /\ browser.currentUser = {} /\ browser.storedUser = {}
        /\ browser'.token = {})
          => browser'.currentUser = {} /\ browser'.storedUser = {}]_vars

\* C30: when no call of incrementDownloadCount is between its fetch and its
\* update, download_count is the number of calls that have completed
\* (SpecCounter).
C30_CountsEveryDownload ==
    (\A c \in Calls : calls[c].pc # "update")
        => site_stats.download_count = Cardinality({c \in Calls : calls[c].pc = "done"})

\* q occurs in text as a substring, letters compared without regard to case
Contains(text, q) ==
    \E i \in 0..(Len(text) - Len(q)) :
        \A j \in 1..Len(q) : Lower(text[i + j]) = Lower(q[j])

Matches(row, q) ==
    Contains(row.subject, q) \/ Contains(row.course_code, q) \/ Contains(row.exam_name, q)

\* C19: a search is answered 200 with exactly the papers one of whose subject,
\* course code and exam name contains the query as a case-insensitive
\* substring; with the empty query, with every paper (SpecSearch).
C19_SearchExact ==
    [][\A r \in Slots :
          Answers(r, "search") =>
              LET resp == req'[r].resp
                  q == req'[r].query
              IN  /\ resp.status = 200
                  /\ resp.list # {}
                  /\ \A l \in resp.list :
                        {l[i].id : i \in 1..Len(l)} =
                            {papers[i].id : i \in {j \in 1..Len(papers) : Matches(papers[j], q)}}]_vars

\* C20: every paper view of a search answer carries the uploader's first
\* name, last name, picture and level, equal to the uploader's users row
\* (SpecSearch).
C20_UploaderInView ==
    [][\A r \in Slots :
          Answers(r, "search") =>
              \A l \in req'[r].resp.list : \A i \in 1..Len(l) :
                  \A u \in ById(users, papers[CHOOSE j \in 1..Len(papers) : papers[j].id = l[i].id].uploader_id) :
                      /\ l[i].uploader # {}
                      /\ \A v \in l[i].uploader :
                            /\ v.firstName = u.first_name
                            /\ v.lastName = u.last_name
                            /\ v.profilePic = u.profile_pic
                            /\ "level" \in DOMAIN v
                            /\ v["level"] = u.level]_vars

====
